---- MODULE Spec2Model ----
(***************************************************************************)
(* Model of the Ecowitt IoT device synchronisation core:                   *)
(* custom_components/ecowitt_iot/coordinator.py (the poll cycle, the       *)
(* last-good cache, the command path) together with the availability       *)
(* checks of the entities that read the published data.                    *)
(***************************************************************************)
EXTENDS Integers, Sequences, FiniteSets, TLC

\* ------------------------------------------------------------------ bounds

\* The wall clock (time.time()) runs from 0 to MaxTime.
MaxTime == 1

\* The time a device stamps its records with (its own clock).
DeviceTime == 0

\* The largest warning byte a device reports.
MaxWarning == 255

\* ------------------------------------------------------- program constants

MODEL_WFC01 == 1
MODEL_AC1100 == 2

\* ---------------------------------------------------------------- registry

\* coordinator.devices: the configured devices, in configuration order.
devices == <<"12345", "67890">>

DeviceIds == {devices[i] : i \in 1..Len(devices)}

\* An identifier that is in no registry, for commands on unknown devices.
UnknownId == "99999"

\* EcowittDeviceDescription.model of each configured device.
DeviceModel(d) == IF d = "12345" THEN MODEL_WFC01 ELSE MODEL_AC1100

\* ------------------------------------------------------------- JSON values

EmptyDict == [x \in {} |-> 0]

\* dict[k] = v
Put(f, k, v) == [x \in (DOMAIN f) \cup {k} |-> IF x = k THEN v ELSE f[x]]

\* The parsed JSON text "{}".
JEmptyObj == [shape |-> "empty", f |-> EmptyDict]

\* The parsed JSON text {"command": []}.
JNoElement == [shape |-> "cmd0", f |-> EmptyDict]

\* The parsed JSON text {"command": [fields]}.
JRec(fields) == [shape |-> "rec", f |-> fields]

\* Python's truth value of a parsed value: an empty dict is false.
Truthy(v) == v.shape # "empty"

\* Mutant of DefaultData: the timestamp is a fixed 0, not time.time().
DefaultData_ZeroTime(d, t) ==
    IF DeviceModel(d) = 1
    THEN JRec([model |-> DeviceModel(d), id |-> d, warning |-> 0, rssi |-> 0,
               gw_rssi |-> 0, timeutc |-> 0,
               water_status |-> 0, flow_velocity |-> "0.00",
               water_total |-> "0.00", water_temp |-> "20.0"])
    ELSE JRec([model |-> DeviceModel(d), id |-> d, warning |-> 0, rssi |-> 0,
               gw_rssi |-> 0, timeutc |-> 0,
               ac_status |-> 0, realtime_power |-> 0,
               ac_voltage |-> 0, ac_current |-> 0])

\* Mutant of DefaultData: the time is also written to "rssi".
DefaultData_TimeInRssi(d, t) ==
    IF DeviceModel(d) = 1
    THEN JRec([model |-> DeviceModel(d), id |-> d, warning |-> 0, rssi |-> t,
               gw_rssi |-> 0, timeutc |-> t,
               water_status |-> 0, flow_velocity |-> "0.00",
               water_total |-> "0.00", water_temp |-> "20.0"])
    ELSE JRec([model |-> DeviceModel(d), id |-> d, warning |-> 0, rssi |-> t,
               gw_rssi |-> 0, timeutc |-> t,
               ac_status |-> 0, realtime_power |-> 0,
               ac_voltage |-> 0, ac_current |-> 0])

\* _get_default_data: the record synthesized for a device at time t.
DefaultData(d, t) ==
    IF DeviceModel(d) = 1
    THEN JRec([model |-> DeviceModel(d), id |-> d, warning |-> 0, rssi |-> 0,
               gw_rssi |-> 0, timeutc |-> t,
               water_status |-> 0, flow_velocity |-> "0.00",
               water_total |-> "0.00", water_temp |-> "20.0"])
    ELSE JRec([model |-> DeviceModel(d), id |-> d, warning |-> 0, rssi |-> 0,
               gw_rssi |-> 0, timeutc |-> t,
               ac_status |-> 0, realtime_power |-> 0,
               ac_voltage |-> 0, ac_current |-> 0])

\* A record as a device reports it with its relay on (st = 1) or off
\* (st = 0): the fields of the default record, with a signal strength.
DeviceRecord(d, st) ==
    IF DeviceModel(d) = 1
    THEN JRec([model |-> DeviceModel(d), id |-> d, warning |-> 0, rssi |-> 3,
               gw_rssi |-> 3, timeutc |-> DeviceTime,
               water_status |-> st, flow_velocity |-> "1.50",
               water_total |-> "7.25", water_temp |-> "20.0"])
    ELSE JRec([model |-> DeviceModel(d), id |-> d, warning |-> 0, rssi |-> 3,
               gw_rssi |-> 3, timeutc |-> DeviceTime,
               ac_status |-> st, realtime_power |-> 5 * st,
               ac_voltage |-> 230, ac_current |-> st])

\* --------------------------------------------------------------- responses

\* What one read request can end in: the trimmed text "200 OK", a transport
\* error or timeout, a text that is no JSON, or a JSON text.
RespAck == [kind |-> "ack", val |-> JEmptyObj]
RespTimeout == [kind |-> "timeout", val |-> JEmptyObj]
RespBad == [kind |-> "bad", val |-> JEmptyObj]
RespJson(v) == [kind |-> "json", val |-> v]
NoResp == [kind |-> "none", val |-> JEmptyObj]

ReadResponses(d) ==
    {RespAck, RespTimeout, RespBad, RespJson(JEmptyObj), RespJson(JNoElement)}
        \cup {RespJson(DeviceRecord(d, st)) : st \in 0..1}

\* The write request of set_device_state ends in "200 OK", another text, or a
\* transport error.
WriteResponses == {"ack", "rejected", "error"}

\* ------------------------------------------------------------------- state

VARIABLES
    now,                  \* time.time()
    loaded,               \* the config entry is set up (first refresh done)
    last_good,            \* coordinator._last_good_data
    heap,                 \* the dict objects that hold snapshots, by identity
    data,                 \* coordinator.data: the published object (0: None)
    last_update_success,  \* coordinator.last_update_success
    pc,                   \* "idle" | "fetch": _async_update_data in flight
    cycObj,               \* the local dict `data` of _fetch_data (0: none)
    idx,                  \* position of the for loop of _fetch_data
    outcome,              \* response each device gave in the current cycle
    refreshRequested,     \* async_request_refresh() is pending
    cmd,                  \* the set_device_state call in flight, or how
                          \* the last one ended
    pending,              \* the PendingCommand of each device (command queue)
    entity,               \* the async_turn_on / async_turn_off call of each
                          \* switch entity, in flight or how it ended
    text,                 \* the body of a response, as characters
    normalized,           \* what the code made of `text`, or "none"
    repeated              \* history: every read of the cycle so far was
                          \* answered as in the cycle before

vars == <<now, loaded, last_good, heap, data, last_update_success, pc, cycObj,
          idx, outcome, refreshRequested, cmd, pending, entity, text,
          normalized, repeated>>

ObjIds == 1..2

NoOutcome == [d \in DeviceIds |-> NoResp]

\* No call in flight; result is how the last call ended ("none" before any).
\* resp is the answer to the write request, once there is one.
IdleCmd(result) ==
    [pc |-> "idle", dev |-> UnknownId, state |-> FALSE, result |-> result,
     resp |-> "none"]

\* ------------------------------------------ command queue (spec 4.3, 3.)

\* The ceiling of verification attempts of a PendingCommand.
MAX_VERIFICATION_ATTEMPTS == 3

\* No PendingCommand for a device.
NoCommand == [status |-> "idle", target_state |-> FALSE,
              verification_attempts |-> 0, last_error |-> "none"]

\* Mutant of NewCommand: the attempt count starts at 1.
NewCommand_OneAttempt(target) ==
    [status |-> "pending", target_state |-> target,
     verification_attempts |-> 1, last_error |-> "none"]

\* The PendingCommand a newly accepted command starts with.
NewCommand(target) == [status |-> "pending", target_state |-> target,
                       verification_attempts |-> 0, last_error |-> "none"]

\* Mutant of AddCommand: an existing PendingCommand gets the new target but
\* keeps its attempt count and its error.
AddCommand_KeepAttempts(q, d, target) ==
    [q EXCEPT ![d] = [@ EXCEPT !.status = "pending", !.target_state = target]]

\* add_command: the device's PendingCommand is replaced by a new one.
AddCommand(q, d, target) == [q EXCEPT ![d] = NewCommand(target)]

\* Mutant of Verify: no ceiling, every mismatch counts one more attempt.
Verify_NoCeiling(c, observed) ==
    IF c.status # "pending" THEN c
    ELSE IF observed = (IF c.target_state THEN "True" ELSE "False")
         THEN NoCommand
         ELSE [c EXCEPT !.verification_attempts = @ + 1]

\* One PendingCommand against the observed state ("True", "False" or "None")
\* of its device in a newly published Snapshot: a match clears it, a mismatch
\* below the ceiling counts an attempt, a mismatch at the ceiling ends it
\* with an error.
Verify(c, observed) ==
    IF c.status # "pending" THEN c
    ELSE IF observed = (IF c.target_state THEN "True" ELSE "False")
         THEN NoCommand
         ELSE IF c.verification_attempts < MAX_VERIFICATION_ATTEMPTS
              THEN [c EXCEPT !.verification_attempts = @ + 1]
              ELSE [c EXCEPT !.status = "exhausted",
                             !.last_error = "verification failed"]

\* A switch entity with no service call made yet.
NoCall == [pc |-> "idle", service |-> "none", calls |-> <<>>,
           raised |-> "none", result |-> "none", last_state |-> "none"]

Init ==
    /\ now = 0
    /\ loaded = FALSE
    /\ last_good = EmptyDict
    /\ heap = [o \in ObjIds |-> EmptyDict]
    /\ data = 0
    /\ last_update_success = TRUE
    /\ pc = "idle"
    /\ cycObj = 0
    /\ idx = 1
    /\ outcome = NoOutcome
    /\ refreshRequested = FALSE
    /\ cmd = IdleCmd("none")
    /\ pending = [d \in DeviceIds |-> NoCommand]
    /\ entity = [d \in DeviceIds |-> NoCall]
    /\ text = <<>>
    /\ normalized = [path |-> "none", cleaned |-> <<>>, parsed |-> FALSE,
                     kind |-> "none"]
    /\ repeated = FALSE

\* ---------------------------------------------- _fetch_device_data (81-140)

\* Whether _fetch_device_data raises: a transport error or timeout, or a text
\* that json.loads rejects (re-raised as UpdateFailed).
FetchRaises(resp) == resp.kind \in {"timeout", "bad"}

\* Mutant of FetchReturn: "200 OK" with nothing cached returns an empty dict
\* instead of the default record.
FetchReturn_NoDefault(d, resp, lg, t) ==
    IF resp.kind = "ack"
    THEN IF d \in DOMAIN lg THEN lg[d] ELSE JEmptyObj
    ELSE resp.val

\* Mutant of FetchReturn: "200 OK" always returns a default record, cached
\* record or not.
FetchReturn_AlwaysDefault(d, resp, lg, t) ==
    IF resp.kind = "ack" THEN DefaultData(d, t) ELSE resp.val

\* The value _fetch_device_data returns when it does not raise: on "200 OK"
\* the cached record if there is one and else the default; otherwise the
\* parsed JSON.
FetchReturn(d, resp, lg, t) ==
    IF resp.kind = "ack"
    THEN IF d \in DOMAIN lg THEN lg[d] ELSE DefaultData(d, t)
    ELSE resp.val

\* Mutant of StoreGood: a read that raises drops the device's cached record.
StoreGood_DropOnError(lg, d, resp) ==
    IF resp.kind = "json"
    THEN Put(lg, d, resp.val)
    ELSE IF FetchRaises(resp)
         THEN [x \in (DOMAIN lg) \ {d} |-> lg[x]]
         ELSE lg

\* Mutant of StoreGood: the numeric-looking string of "water_temp" is
\* rewritten before the record is stored.
StoreGood_Reformatted(lg, d, resp) ==
    IF resp.kind = "json"
    THEN IF resp.val.shape = "rec" /\ "water_temp" \in DOMAIN resp.val.f
         THEN Put(lg, d, JRec(Put(resp.val.f, "water_temp", "20")))
         ELSE Put(lg, d, resp.val)
    ELSE lg

\* Mutant of StoreGood: the default record made for "200 OK" is stored too.
StoreGood_CacheDefault(lg, d, resp) ==
    IF resp.kind = "json"
    THEN Put(lg, d, resp.val)
    ELSE IF resp.kind = "ack" /\ d \notin DOMAIN lg
         THEN Put(lg, d, DefaultData(d, now))
         ELSE lg

\* _last_good_data after the read: json.loads succeeded, so the parsed value
\* is stored; every other response leaves the cache alone.
StoreGood(lg, d, resp) ==
    IF resp.kind = "json" THEN Put(lg, d, resp.val) ELSE lg

\* ------------------------------------------------------ _fetch_data (62-79)

\* Mutant of FallbackOnError: with nothing cached, a default record is used.
FallbackOnError_Default(local, d, lg) ==
    IF d \in DOMAIN lg THEN Put(local, d, lg[d])
    ELSE Put(local, d, DefaultData(d, 0))

\* Mutant of FallbackOnError: the except branch only logs.
FallbackOnError_Skip(local, d, lg) == local

\* The except branch of the loop: the cached record if there is one.
FallbackOnError(local, d, lg) ==
    IF d \in DOMAIN lg THEN Put(local, d, lg[d]) ELSE local

\* The try branch of the loop: `if device_data: data[id] = device_data`.
KeepIfData(local, d, v) ==
    IF Truthy(v) THEN Put(local, d, v) ELSE local

\* One iteration of the loop over the devices, on the local dict.
LoopBody(local, d, resp, lg, t) ==
    IF FetchRaises(resp)
    THEN FallbackOnError(local, d, lg)
    ELSE KeepIfData(local, d, FetchReturn(d, resp, lg, t))

\* Mutant of NextIdx: no try/except in the loop, a read that raises ends it.
NextIdx_StopOnError(i, resp) ==
    IF FetchRaises(resp) THEN Len(devices) + 1 ELSE i + 1

\* `for device in self.devices`: the loop goes on to the next device whether
\* the read returned or raised.
NextIdx(i, resp) == i + 1

\* Mutant of LoopDone: `return data` is inside the loop.
LoopDone_Early(i) == i > 1

\* The loop has been through every device: `return data`.
LoopDone(i) == i > Len(devices)

\* Mutant of NewDict: the cycle fills the published dict.
NewDict_Reuse(published) == IF published = 0 THEN 1 ELSE published

\* `data = {}`: the local dict is a new object, never the published one.
NewDict(published) == CHOOSE o \in ObjIds : o # published

\* ------------------------------------------------------ switch.py (114-140)

\* dict.get(key, default)
Get(f, k, default) == IF k \in DOMAIN f THEN f[k] ELSE default

\* bool(x) of a number
Bool(x) == x # 0

\* Python's True and False, beside None, as the value of is_on.
PyBool(b) == IF b THEN "True" ELSE "False"

\* Mutant of IsOnIn: the target of the device's command is reported for as
\* long as the device has a command, pending or ended in an error.
IsOnIn_TargetKept(snap, d) ==
    IF pending[d].status # "idle" THEN PyBool(pending[d].target_state)
    ELSE IF d \notin DOMAIN snap \/ snap[d].shape # "rec" THEN "None"
    ELSE IF DeviceModel(d) = 1
         THEN PyBool(Bool(Get(snap[d].f, "water_status", 0))
                     \/ Bool(Get(snap[d].f, "water_running", 0)))
         ELSE PyBool(Bool(Get(snap[d].f, "ac_status", 0)))

\* is_on, had the valve's "always_on" field been part of the result.
IsOnIn_AlwaysOn(snap, d) ==
    IF d \notin DOMAIN snap \/ snap[d].shape # "rec" THEN "None"
    ELSE IF DeviceModel(d) = 1
         THEN PyBool(Bool(Get(snap[d].f, "water_status", 0))
                     \/ Bool(Get(snap[d].f, "water_running", 0))
                     \/ Bool(Get(snap[d].f, "always_on", 0)))
         ELSE PyBool(Bool(Get(snap[d].f, "ac_status", 0)))

\* EcowittSwitch.is_on on the dict `snap` as coordinator.data: None when
\* data[id]["command"][0] raises KeyError or IndexError; for the valve
\* bool(water_status) or bool(water_running), else bool(ac_status).
IsOnIn(snap, d) ==
    IF d \notin DOMAIN snap \/ snap[d].shape # "rec" THEN "None"
    ELSE LET device_data == snap[d].f IN
         IF DeviceModel(d) = 1
         THEN PyBool(Bool(Get(device_data, "water_status", 0))
                     \/ Bool(Get(device_data, "water_running", 0)))
         ELSE PyBool(Bool(Get(device_data, "ac_status", 0)))

\* The observed boolean state of a device in a Snapshot as reconciliation
\* compares it with the target: the "ac_status" field for the power plug,
\* the logical OR of "water_status" and "water_running" for the valve.
ObservedState(snap, d) ==
    IF d \notin DOMAIN snap \/ snap[d].shape # "rec" THEN "None"
    ELSE IF DeviceModel(d) = MODEL_AC1100
         THEN PyBool(Get(snap[d].f, "ac_status", 0) # 0)
         ELSE PyBool(Get(snap[d].f, "water_status", 0) # 0
                     \/ Get(snap[d].f, "water_running", 0) # 0)

\* Reconciliation: every PendingCommand is verified against the Snapshot
\* that has just been published.
Reconcile(q, snap) == [d \in DeviceIds |-> Verify(q[d], ObservedState(snap, d))]

\* ---------------------------------------------------------------- actions

\* Mutant of StartRefresh: the next refresh is scheduled on the success path
\* only.
StartRefresh_OnlyAfterSuccess ==
    /\ pc = "idle"
    /\ last_update_success
    /\ \/ ~loaded /\ refreshRequested' = refreshRequested
       \/ loaded /\ refreshRequested /\ refreshRequested' = FALSE
       \/ loaded /\ refreshRequested' = refreshRequested
    /\ pc' = "fetch"
    /\ cycObj' = NewDict(data)
    /\ heap' = [heap EXCEPT ![cycObj'] = EmptyDict]
    /\ idx' = 1
    /\ outcome' = NoOutcome
    /\ UNCHANGED <<now, loaded, last_good, data, last_update_success, cmd,
                   pending,
                   entity, text, normalized,
                   repeated>>

\* A refresh starts: the first refresh of the setup, a requested refresh
\* (which takes the request), or the interval timer. _async_update_data
\* enters _fetch_data.
StartRefresh ==
    /\ pc = "idle"
    /\ \/ ~loaded /\ refreshRequested' = refreshRequested
       \/ loaded /\ refreshRequested /\ refreshRequested' = FALSE
       \/ loaded /\ refreshRequested' = refreshRequested
    /\ pc' = "fetch"
    /\ cycObj' = NewDict(data)
    /\ heap' = [heap EXCEPT ![cycObj'] = EmptyDict]
    /\ idx' = 1
    /\ outcome' = NoOutcome
    /\ UNCHANGED <<now, loaded, last_good, data, last_update_success, cmd,
                   pending,
                   entity, text, normalized,
                   repeated>>

\* Mutant of FetchDevice: no try/except around the read, so a read that
\* raises leaves _fetch_data and the cycle ends in UpdateFailed.
FetchDevice_Propagates ==
    /\ pc = "fetch"
    /\ ~LoopDone(idx)
    /\ \E resp \in ReadResponses(devices[idx]) :
        LET d == devices[idx] IN
        /\ last_good' = StoreGood(last_good, d, resp)
        /\ outcome' = [outcome EXCEPT ![d] = resp]
        /\ IF FetchRaises(resp)
           THEN /\ heap' = [o \in ObjIds |-> IF o = data THEN heap[o]
                                                        ELSE EmptyDict]
                /\ last_update_success' = FALSE
                /\ pc' = "idle"
                /\ cycObj' = 0
                /\ idx' = 1
           ELSE /\ heap' = [heap EXCEPT
                              ![cycObj] = LoopBody(heap[cycObj], d, resp,
                                                   last_good, now)]
                /\ idx' = NextIdx(idx, resp)
                /\ UNCHANGED <<last_update_success, pc, cycObj>>
    /\ UNCHANGED <<now, loaded, data, refreshRequested, cmd, pending,
                   entity, text, normalized,
                   repeated>>

\* One iteration of the loop of _fetch_data: the device at position idx is
\* read and its outcome goes into the local dict.
FetchDevice ==
    /\ pc = "fetch"
    /\ ~LoopDone(idx)
    /\ \E resp \in ReadResponses(devices[idx]) :
        LET d == devices[idx] IN
        /\ heap' = [heap EXCEPT
                      ![cycObj] = LoopBody(heap[cycObj], d, resp, last_good, now)]
        /\ last_good' = StoreGood(last_good, d, resp)
        /\ outcome' = [outcome EXCEPT ![d] = resp]
        /\ idx' = NextIdx(idx, resp)
    /\ UNCHANGED <<now, loaded, data, last_update_success, pc, cycObj,
                   refreshRequested, cmd, pending,
                   entity, text, normalized,
                   repeated>>

\* What the base class publishes when _async_update_data returns.
Publish(local) == local

\* _fetch_data returns after the last device: the base class stores the
\* returned dict as coordinator.data and marks the update successful.
FinishRefresh ==
    /\ pc = "fetch"
    /\ LoopDone(idx)
    /\ data' = Publish(cycObj)
    /\ heap' = [o \in ObjIds |-> IF o = data' THEN heap[o] ELSE EmptyDict]
    /\ last_update_success' = TRUE
    /\ loaded' = TRUE
    /\ pc' = "idle"
    /\ cycObj' = 0
    /\ UNCHANGED <<now, last_good, idx, outcome, refreshRequested, cmd,
                   pending,
                   entity, text, normalized,
                   repeated>>

\* Mutant of DataAfterAbort: the partial result is published.
DataAfterAbort_Partial(published, local) == local

\* The object coordinator.data refers to after a cycle raised UpdateFailed.
DataAfterAbort(published, local) == published

\* The 30 s timeout of _async_update_data fires, or an unexpected exception
\* leaves _fetch_data, while a device is being read: UpdateFailed. During the
\* first refresh the setup fails and the coordinator is discarded.
AbortCycle ==
    /\ pc = "fetch"
    /\ ~LoopDone(idx)
    /\ IF loaded
       THEN /\ data' = DataAfterAbort(data, cycObj)
            /\ heap' = [o \in ObjIds |-> IF o = data' THEN heap[o] ELSE EmptyDict]
            /\ last_update_success' = FALSE
            /\ UNCHANGED <<last_good, outcome>>
       ELSE /\ data' = 0
            /\ heap' = [o \in ObjIds |-> EmptyDict]
            /\ last_update_success' = TRUE
            /\ last_good' = EmptyDict
            /\ outcome' = NoOutcome
    /\ pc' = "idle"
    /\ cycObj' = 0
    /\ idx' = 1
    /\ UNCHANGED <<now, loaded, refreshRequested, cmd, pending,
                   entity, text, normalized,
                   repeated>>

\* time.time() advances.
Tick ==
    /\ now < MaxTime
    /\ now' = now + 1
    /\ UNCHANGED <<loaded, last_good, heap, data, last_update_success, pc,
                   cycObj, idx, outcome, refreshRequested, cmd, pending,
                   entity, text, normalized,
                   repeated>>

\* Mutant of FindDevice: no lookup, every identifier is taken as configured.
FindDevice_Any(id) == TRUE

\* `next((d for d in self.devices if d.device_id == device_id), None)` finds
\* a device.
FindDevice(id) == \E i \in 1..Len(devices) : devices[i] = id

\* Mutant of SetStateCall: the refresh is requested when the write is sent,
\* before its answer and the settle delay.
SetStateCall_RefreshFirst ==
    /\ loaded
    /\ cmd.pc = "idle"
    /\ \E id \in DeviceIds \cup {UnknownId}, st \in BOOLEAN :
        IF FindDevice(id)
        THEN /\ cmd' = [pc |-> "posted", dev |-> id, state |-> st,
                        result |-> "running", resp |-> "none"]
             /\ refreshRequested' = TRUE
        ELSE /\ cmd' = IdleCmd("ValueError")
             /\ refreshRequested' = refreshRequested
    /\ UNCHANGED <<now, loaded, last_good, heap, data, last_update_success, pc,
                   cycObj, idx, outcome, pending,
                   entity, text, normalized,
                   repeated>>

\* set_device_state(device_id, state) is called: the device is looked up and
\* the write request is sent; an unknown identifier raises ValueError.
SetStateCall ==
    /\ loaded
    /\ cmd.pc = "idle"
    /\ \E id \in DeviceIds \cup {UnknownId}, st \in BOOLEAN :
        IF FindDevice(id)
        THEN cmd' = [pc |-> "posted", dev |-> id, state |-> st,
                     result |-> "running", resp |-> "none"]
        ELSE cmd' = IdleCmd("ValueError")
    /\ UNCHANGED <<now, loaded, last_good, heap, data, last_update_success, pc,
                   cycObj, idx, outcome, refreshRequested, pending,
                   entity, text, normalized,
                   repeated>>

\* Mutant of Accepted: every text the endpoint answers counts as success.
Accepted_AnyText(r) == r # "error"

\* `text == "200 OK"` after the strip: the write is accepted.
Accepted(r) == r = "ack"

\* The response to the write request: anything but "200 OK" raises
\* UpdateFailed; "200 OK" goes on to asyncio.sleep(1).
SetStateResponse ==
    /\ cmd.pc = "posted"
    /\ \E r \in WriteResponses :
        IF Accepted(r)
        THEN cmd' = [cmd EXCEPT !.pc = "settle", !.resp = r]
        ELSE cmd' = [IdleCmd("UpdateFailed") EXCEPT !.resp = r]
    /\ UNCHANGED <<now, loaded, last_good, heap, data, last_update_success, pc,
                   cycObj, idx, outcome, refreshRequested, pending,
                   entity, text, normalized,
                   repeated>>

\* The settle delay is over: async_request_refresh() and return.
SetStateSettled ==
    /\ cmd.pc = "settle"
    /\ refreshRequested' = TRUE
    /\ cmd' = IdleCmd("ok")
    /\ UNCHANGED <<now, loaded, last_good, heap, data, last_update_success, pc,
                   cycObj, idx, outcome, pending,
                   entity, text, normalized,
                   repeated>>

Next ==
    \/ StartRefresh
    \/ FetchDevice
    \/ FinishRefresh
    \/ AbortCycle
    \/ Tick
    \/ SetStateCall
    \/ SetStateResponse
    \/ SetStateSettled

Spec == Init /\ [][Next]_vars

\* The interval timer (update_interval = DEFAULT_SCAN_INTERVAL seconds) is
\* armed again after every refresh, and a failed setup is retried: a refresh
\* that can start does start.
FairSpec == Spec /\ WF_vars(StartRefresh)

\* ------------------------------------- with the command layer (spec 4.3)
\*
\* coordinator.py and switch.py keep no PendingCommand: the command queue
\* the switch tests construct (command_queue.EcowittCommandQueue) is not part
\* of the source tree.  The actions below are the handlers above with the
\* queue's calls added where spec 4.3 puts them: add_command when the write is
\* accepted (step 4), reconciliation when a Snapshot is published (step 5).

\* The reads of the devices that matter to reconciliation: a record with the
\* relay on or off, or a failed read.
CmdReadResponses(d) ==
    {RespTimeout} \cup {RespJson(DeviceRecord(d, st)) : st \in 0..1}

\* FetchDevice, with the reads of CmdReadResponses.
CmdFetchDevice ==
    /\ pc = "fetch"
    /\ ~LoopDone(idx)
    /\ \E resp \in CmdReadResponses(devices[idx]) :
        LET d == devices[idx] IN
        /\ heap' = [heap EXCEPT
                      ![cycObj] = LoopBody(heap[cycObj], d, resp, last_good, now)]
        /\ last_good' = StoreGood(last_good, d, resp)
        /\ outcome' = [outcome EXCEPT ![d] = resp]
        /\ idx' = NextIdx(idx, resp)
    /\ UNCHANGED <<now, loaded, data, last_update_success, pc, cycObj,
                   refreshRequested, cmd, pending,
                   entity, text, normalized,
                   repeated>>

\* FinishRefresh, followed by the reconciliation of the PendingCommands
\* against the Snapshot it publishes.
CmdFinishRefresh ==
    /\ pc = "fetch"
    /\ LoopDone(idx)
    /\ data' = Publish(cycObj)
    /\ heap' = [o \in ObjIds |-> IF o = data' THEN heap[o] ELSE EmptyDict]
    /\ last_update_success' = TRUE
    /\ loaded' = TRUE
    /\ pc' = "idle"
    /\ cycObj' = 0
    /\ pending' = Reconcile(pending, heap[cycObj])
    /\ UNCHANGED <<now, last_good, idx, outcome, refreshRequested, cmd,
                   entity, text, normalized,
                   repeated>>

\* SetStateResponse, with the PendingCommand recorded when the write is
\* accepted.
CmdSetStateResponse ==
    /\ cmd.pc = "posted"
    /\ \E r \in WriteResponses :
        IF Accepted(r)
        THEN /\ cmd' = [cmd EXCEPT !.pc = "settle", !.resp = r]
             /\ pending' = AddCommand(pending, cmd.dev, cmd.state)
        ELSE /\ cmd' = [IdleCmd("UpdateFailed") EXCEPT !.resp = r]
             /\ pending' = pending
    /\ UNCHANGED <<now, loaded, last_good, heap, data, last_update_success, pc,
                   cycObj, idx, outcome, refreshRequested,
                   entity, text, normalized,
                   repeated>>

CmdNext ==
    \/ StartRefresh
    \/ CmdFetchDevice
    \/ CmdFinishRefresh
    \/ AbortCycle
    \/ SetStateCall
    \/ CmdSetStateResponse
    \/ SetStateSettled

CmdSpec == Init /\ [][CmdNext]_vars

\* _fetch_data returns once its loop is over, and what it returns is
\* published: a cycle that has been through every device does publish.
CmdFairSpec == CmdSpec /\ WF_vars(CmdFinishRefresh)

\* --------------------------------- async_turn_on / async_turn_off (92-112)
\*
\* Each switch entity calls set_device_state for its own device. `calls` is
\* the list of set_device_state invocations the service call has made,
\* `raised` what set_device_state raised and `result` how the service call
\* ended.

Services == {"turn_on", "turn_off"}

\* async_turn_on passes True, async_turn_off passes False.
StateArg(service) == service = "turn_on"

\* Mutant of Reraise: the except branch only logs.
Reraise_Swallowed(err) == "ok"

\* `except Exception as err: _LOGGER.error(...); raise`.
Reraise(err) == err

\* Mutant of AsyncTurn: the call waits for the poll cycle and for the calls
\* of the other entities to be over.
AsyncTurn_Serialized(d, service) ==
    /\ loaded
    /\ pc = "idle"
    /\ \A e \in DeviceIds : entity[e].pc = "idle"
    /\ entity' = [entity EXCEPT ![d] =
                     [pc |-> "posted", service |-> service,
                      calls |-> <<[id |-> d, state |-> StateArg(service)]>>,
                      raised |-> "none", result |-> "running",
                      last_state |-> entity[d].last_state]]
    /\ UNCHANGED <<now, loaded, last_good, heap, data, last_update_success, pc,
                   cycObj, idx, outcome, refreshRequested, cmd, pending, text,
                   normalized,
                   repeated>>

\* The service is called: set_device_state(self._device.device_id, state)
\* is awaited, which looks the device up and sends the write.
AsyncTurn(d, service) ==
    /\ loaded
    /\ entity[d].pc = "idle"
    /\ LET call == [id |-> d, state |-> StateArg(service)] IN
        IF FindDevice(call.id)
        THEN entity' = [entity EXCEPT ![d] =
                          [pc |-> "posted", service |-> service,
                           calls |-> <<call>>, raised |-> "none",
                           result |-> "running",
                           last_state |-> entity[d].last_state]]
        ELSE entity' = [entity EXCEPT ![d] =
                          [pc |-> "idle", service |-> service,
                           calls |-> <<call>>, raised |-> "ValueError",
                           result |-> Reraise("ValueError"),
                           last_state |-> entity[d].last_state]]
    /\ UNCHANGED <<now, loaded, last_good, heap, data, last_update_success, pc,
                   cycObj, idx, outcome, refreshRequested, cmd, pending, text,
                   normalized,
                   repeated>>

\* The answer to the entity's write: "200 OK" goes on to asyncio.sleep(1);
\* anything else makes set_device_state raise UpdateFailed, which the
\* service call logs and raises again.
EntityWriteResponse(d) ==
    /\ entity[d].pc = "posted"
    /\ \E r \in WriteResponses :
        IF Accepted(r)
        THEN entity' = [entity EXCEPT ![d].pc = "settle"]
        ELSE entity' = [entity EXCEPT ![d].pc = "idle",
                                      ![d].raised = "UpdateFailed",
                                      ![d].result = Reraise("UpdateFailed")]
    /\ UNCHANGED <<now, loaded, last_good, heap, data, last_update_success, pc,
                   cycObj, idx, outcome, refreshRequested, cmd, pending, text,
                   normalized,
                   repeated>>

\* The settle delay is over: set_device_state requests a refresh and
\* returns, the service call requests a refresh again and returns.
EntitySettled(d) ==
    /\ entity[d].pc = "settle"
    /\ refreshRequested' = TRUE
    /\ entity' = [entity EXCEPT ![d].pc = "idle", ![d].result = "ok"]
    /\ UNCHANGED <<now, loaded, last_good, heap, data, last_update_success, pc,
                   cycObj, idx, outcome, cmd, pending, text, normalized,
                   repeated>>

EntityNext ==
    \/ StartRefresh
    \/ CmdFetchDevice
    \/ FinishRefresh
    \/ AbortCycle
    \/ \E d \in DeviceIds, service \in Services : AsyncTurn(d, service)
    \/ \E d \in DeviceIds : EntityWriteResponse(d)
    \/ \E d \in DeviceIds : EntitySettled(d)

EntitySpec == Init /\ [][EntityNext]_vars

\* The switch entity of d is added to Home Assistant, which holds `st` as
\* the state the entity had when it was last stored ("on" or "off").
\* EcowittSwitch keeps nothing of it: it defines no async_added_to_hass and
\* no restore, and is_on goes on reading coordinator.data.
AsyncAddedToHass(d, st) ==
    /\ loaded
    /\ entity[d].last_state = "none"
    /\ entity' = [entity EXCEPT ![d].last_state = st]
    /\ UNCHANGED <<now, loaded, last_good, heap, data, last_update_success, pc,
                   cycObj, idx, outcome, refreshRequested, cmd, pending, text,
                   normalized, repeated>>

RestoreNext ==
    \/ StartRefresh
    \/ CmdFetchDevice
    \/ FinishRefresh
    \/ \E d \in DeviceIds, st \in {"on", "off"} : AsyncAddedToHass(d, st)

RestoreSpec == Init /\ [][RestoreNext]_vars

\* EntityWriteResponse with the command layer: an accepted write of an
\* entity records the PendingCommand of its device.
CmdEntityWriteResponse(d) ==
    /\ entity[d].pc = "posted"
    /\ \E r \in WriteResponses :
        IF Accepted(r)
        THEN /\ entity' = [entity EXCEPT ![d].pc = "settle"]
             /\ pending' = AddCommand(pending, d,
                                      StateArg(entity[d].service))
        ELSE /\ entity' = [entity EXCEPT ![d].pc = "idle",
                                         ![d].raised = "UpdateFailed",
                                         ![d].result = Reraise("UpdateFailed")]
             /\ pending' = pending
    /\ UNCHANGED <<now, loaded, last_good, heap, data, last_update_success, pc,
                   cycObj, idx, outcome, refreshRequested, cmd, text,
                   normalized,
                   repeated>>

CmdEntityNext ==
    \/ StartRefresh
    \/ CmdFetchDevice
    \/ CmdFinishRefresh
    \/ \E d \in DeviceIds, service \in Services : AsyncTurn(d, service)
    \/ \E d \in DeviceIds : CmdEntityWriteResponse(d)
    \/ \E d \in DeviceIds : EntitySettled(d)

CmdEntitySpec == Init /\ [][CmdEntityNext]_vars

\* ------------------------------------------ one refresh after another
\*
\* The poll cycle with the responses of the cycle before kept in `outcome`
\* until the device is read again, and `repeated` telling whether every
\* read of the running cycle was answered as in the cycle before.

\* StartRefresh after a published cycle (or the first refresh).
RepeatStartRefresh ==
    /\ pc = "idle"
    /\ pc' = "fetch"
    /\ cycObj' = NewDict(data)
    /\ heap' = [heap EXCEPT ![cycObj'] = EmptyDict]
    /\ idx' = 1
    /\ repeated' = loaded
    /\ UNCHANGED <<now, loaded, last_good, data, last_update_success, cmd,
                   pending, entity, text, normalized, outcome,
                   refreshRequested>>

\* FetchDevice, comparing the response with the one of the cycle before.
RepeatFetchDevice ==
    /\ pc = "fetch"
    /\ ~LoopDone(idx)
    /\ \E resp \in ReadResponses(devices[idx]) :
        LET d == devices[idx] IN
        /\ heap' = [heap EXCEPT
                      ![cycObj] = LoopBody(heap[cycObj], d, resp, last_good, now)]
        /\ last_good' = StoreGood(last_good, d, resp)
        /\ repeated' = (repeated /\ resp = outcome[d])
        /\ outcome' = [outcome EXCEPT ![d] = resp]
        /\ idx' = NextIdx(idx, resp)
    /\ UNCHANGED <<now, loaded, data, last_update_success, pc, cycObj,
                   refreshRequested, cmd, pending, entity, text, normalized>>

RepeatNext ==
    \/ RepeatStartRefresh
    \/ RepeatFetchDevice
    \/ FinishRefresh
    \/ Tick

RepeatSpec == Init /\ [][RepeatNext]_vars

\* ------------------------------------------- the fields is_on reads
\*
\* The poll cycle on records that differ in the fields the switch looks at.

\* The record rec with the field k set to v, and without the field k.
WithField(rec, k, v) == JRec(Put(rec.f, k, v))
WithoutField(rec, k) == JRec([x \in (DOMAIN rec.f) \ {k} |-> rec.f[x]])

\* The values a status field of a record takes.
StatusValues == 0..2

\* Records of a valve: water_status, with or without water_running and
\* always_on; records of a plug: with or without ac_status.
SwitchRecords(d) ==
    IF DeviceModel(d) = MODEL_WFC01
    THEN LET base == {DeviceRecord(d, st) : st \in StatusValues}
             run == base \cup {WithField(r, "water_running", v) :
                                  r \in base, v \in 0..1}
         IN  run \cup {WithField(r, "always_on", 1) : r \in run}
    ELSE {DeviceRecord(d, st) : st \in StatusValues}
            \cup {WithoutField(DeviceRecord(d, 0), "ac_status")}

SwitchReadResponses(d) ==
    {RespTimeout} \cup {RespJson(r) : r \in SwitchRecords(d)}

\* FetchDevice, with the reads of SwitchReadResponses.
SwitchFetchDevice ==
    /\ pc = "fetch"
    /\ ~LoopDone(idx)
    /\ \E resp \in SwitchReadResponses(devices[idx]) :
        LET d == devices[idx] IN
        /\ heap' = [heap EXCEPT
                      ![cycObj] = LoopBody(heap[cycObj], d, resp, last_good, now)]
        /\ last_good' = StoreGood(last_good, d, resp)
        /\ outcome' = [outcome EXCEPT ![d] = resp]
        /\ idx' = NextIdx(idx, resp)
    /\ UNCHANGED <<now, loaded, data, last_update_success, pc, cycObj,
                   refreshRequested, cmd, pending,
                   entity, text, normalized,
                   repeated>>

SwitchNext ==
    \/ StartRefresh
    \/ SwitchFetchDevice
    \/ FinishRefresh

SwitchSpec == Init /\ [][SwitchNext]_vars

\* ------------------------------------ the fields the sensors read
\*
\* The poll cycle on records that differ in the battery level of the valve
\* ("wfc01batt") or in the warning byte of the plug ("warning").

\* The battery levels a valve reports: 0..5, and values outside.
BatteryLevels == (0 - 1)..7

BatteryReadResponses(d) ==
    IF DeviceModel(d) = MODEL_WFC01
    THEN {RespJson(DeviceRecord(d, 0))}
            \cup {RespJson(WithField(DeviceRecord(d, 0), "wfc01batt", v)) :
                      v \in BatteryLevels}
    ELSE {RespTimeout, RespJson(DeviceRecord(d, 0))}

\* FetchDevice, with the reads of BatteryReadResponses.
BatteryFetchDevice ==
    /\ pc = "fetch"
    /\ ~LoopDone(idx)
    /\ \E resp \in BatteryReadResponses(devices[idx]) :
        LET d == devices[idx] IN
        /\ heap' = [heap EXCEPT
                      ![cycObj] = LoopBody(heap[cycObj], d, resp, last_good, now)]
        /\ last_good' = StoreGood(last_good, d, resp)
        /\ outcome' = [outcome EXCEPT ![d] = resp]
        /\ idx' = NextIdx(idx, resp)
    /\ UNCHANGED <<now, loaded, data, last_update_success, pc, cycObj,
                   refreshRequested, cmd, pending, entity, text, normalized,
                   repeated>>

BatteryNext ==
    \/ StartRefresh
    \/ BatteryFetchDevice
    \/ FinishRefresh

BatterySpec == Init /\ [][BatteryNext]_vars

\* The warning bytes a plug reports, and a record without the field.
WarningReadResponses(d) ==
    IF DeviceModel(d) = MODEL_AC1100
    THEN {RespJson(WithoutField(DeviceRecord(d, 0), "warning"))}
            \cup {RespJson(WithField(DeviceRecord(d, 0), "warning", w)) :
                      w \in 0..MaxWarning}
    ELSE {RespJson(DeviceRecord(d, 0))}

\* FetchDevice, with the reads of WarningReadResponses.
WarningFetchDevice ==
    /\ pc = "fetch"
    /\ ~LoopDone(idx)
    /\ \E resp \in WarningReadResponses(devices[idx]) :
        LET d == devices[idx] IN
        /\ heap' = [heap EXCEPT
                      ![cycObj] = LoopBody(heap[cycObj], d, resp, last_good, now)]
        /\ last_good' = StoreGood(last_good, d, resp)
        /\ outcome' = [outcome EXCEPT ![d] = resp]
        /\ idx' = NextIdx(idx, resp)
    /\ UNCHANGED <<now, loaded, data, last_update_success, pc, cycObj,
                   refreshRequested, cmd, pending, entity, text, normalized,
                   repeated>>

WarningNext ==
    \/ StartRefresh
    \/ WarningFetchDevice
    \/ FinishRefresh

WarningSpec == Init /\ [][WarningNext]_vars

\* ------------------------------------- the text of a response, cleaned
\*
\* A text is a sequence of characters. The three places that read a
\* response body clean it with text.strip(' %\n\r') and then decide what
\* it is: _fetch_device_data (96-132), set_device_state (207-213) and
\* validate_input of the config flow (61-95).

MaxLead == 1
MaxTrail == 3

\* The characters str.strip is asked to remove.
StripChars == {" ", "%", "\n", "\r"}

\* The whitespace json.loads skips around a value.
JsonWhitespace == {" ", "\t", "\n", "\r"}

RECURSIVE LStrip(_, _)
LStrip(s, chars) ==
    IF s # <<>> /\ Head(s) \in chars THEN LStrip(Tail(s), chars) ELSE s

RECURSIVE RStrip(_, _)
RStrip(s, chars) ==
    IF s # <<>> /\ s[Len(s)] \in chars
    THEN RStrip(SubSeq(s, 1, Len(s) - 1), chars)
    ELSE s

\* str.strip(chars): every leading and every trailing character that is in
\* chars is removed.
Strip(s, chars) == RStrip(LStrip(s, chars), chars)

\* Mutant of Clean: only blanks and line ends are removed.
Clean_KeepPercent(s) == Strip(s, {" ", "\n", "\r"})

\* `text = text.strip(' %\n\r')`.
Clean(s) == Strip(s, StripChars)

\* The text "200 OK".
OkText == <<"2", "0", "0", " ", "O", "K">>

\* `text.startswith("<")`.
StartsWith(s, c) == s # <<>> /\ Head(s) = c

\* json.loads on the texts of Inputs: whitespace around the value is
\* skipped; "{}" is a value; the empty text, "200 OK", a text that starts
\* with "<" or "x" and a text with "%" in it raise JSONDecodeError.
JsonLoads(s) ==
    IF Strip(s, JsonWhitespace) = <<"{", "}">> THEN "json" ELSE "bad"

\* Mutant of FetchNormalized: the text is parsed before it is compared.
FetchNormalized_ParseFirst(s) ==
    LET cleaned == Clean(s) IN
    [path |-> "poll", cleaned |-> cleaned, parsed |-> TRUE,
     kind |-> IF cleaned = OkText THEN "bad" ELSE JsonLoads(cleaned)]

\* _fetch_device_data on the body s: "200 OK" is the acknowledgement; every
\* other text goes to json.loads, whose JSONDecodeError is the failed read.
FetchNormalized(s) ==
    LET cleaned == Clean(s) IN
    IF cleaned = OkText
    THEN [path |-> "poll", cleaned |-> cleaned, parsed |-> FALSE,
          kind |-> "ack"]
    ELSE [path |-> "poll", cleaned |-> cleaned, parsed |-> TRUE,
          kind |-> JsonLoads(cleaned)]

\* set_device_state on the body s: "200 OK" is accepted, every other text
\* raises UpdateFailed; nothing is parsed.
SetStateNormalized(s) ==
    LET cleaned == Clean(s) IN
    [path |-> "command", cleaned |-> cleaned, parsed |-> FALSE,
     kind |-> IF cleaned = OkText THEN "ack" ELSE "rejected"]

\* validate_input on the body s: an empty text and a text that starts with
\* "<" raise ValueError before json.loads; every other text is parsed.
ValidateNormalized(s) ==
    LET cleaned == Clean(s) IN
    IF cleaned = <<>>
    THEN [path |-> "config", cleaned |-> cleaned, parsed |-> FALSE,
          kind |-> "empty"]
    ELSE IF StartsWith(cleaned, "<")
    THEN [path |-> "config", cleaned |-> cleaned, parsed |-> FALSE,
          kind |-> "html"]
    ELSE [path |-> "config", cleaned |-> cleaned, parsed |-> TRUE,
          kind |-> JsonLoads(cleaned)]

\* The characters around the body of a response, and the bodies.
PadChars == StripChars \cup {"\t"}

RECURSIVE Pads(_)
Pads(n) ==
    IF n = 0 THEN {<<>>}
    ELSE LET shorter == Pads(n - 1) IN
         shorter \cup {<<c>> \o p : c \in PadChars, p \in shorter}

Bodies == {OkText, <<>>, <<"<", "h", ">">>, <<"{", "}">>, <<"x">>}

Inputs == {lead \o body \o trail :
              lead \in Pads(MaxLead), body \in Bodies, trail \in Pads(MaxTrail)}

NotNormalized == [path |-> "none", cleaned |-> <<>>, parsed |-> FALSE,
                  kind |-> "none"]

NormInit ==
    /\ now = 0
    /\ loaded = FALSE
    /\ last_good = EmptyDict
    /\ heap = [o \in ObjIds |-> EmptyDict]
    /\ data = 0
    /\ last_update_success = TRUE
    /\ pc = "idle"
    /\ cycObj = 0
    /\ idx = 1
    /\ outcome = NoOutcome
    /\ refreshRequested = FALSE
    /\ cmd = IdleCmd("none")
    /\ pending = [d \in DeviceIds |-> NoCommand]
    /\ entity = [d \in DeviceIds |-> NoCall]
    /\ text \in Inputs
    /\ normalized = NotNormalized
    /\ repeated = FALSE

NormUnchanged ==
    UNCHANGED <<now, loaded, last_good, heap, data, last_update_success, pc,
                cycObj, idx, outcome, refreshRequested, cmd, pending, entity,
                text, repeated>>

\* The body is the answer to a read of the poll cycle.
FetchNormalize ==
    /\ normalized = NotNormalized
    /\ normalized' = FetchNormalized(text)
    /\ NormUnchanged

\* The body is the answer to the write of set_device_state.
SetStateNormalize ==
    /\ normalized = NotNormalized
    /\ normalized' = SetStateNormalized(text)
    /\ NormUnchanged

\* The body is the answer to the device list request of the config flow.
ValidateNormalize ==
    /\ normalized = NotNormalized
    /\ normalized' = ValidateNormalized(text)
    /\ NormUnchanged

NormNext ==
    \/ FetchNormalize
    \/ SetStateNormalize
    \/ ValidateNormalize

NormSpec == NormInit /\ [][NormNext]_vars

\* ------------------------------------------------------- what readers see

\* The contents of coordinator.data (empty while it is still None).
Snapshot == IF data = 0 THEN EmptyDict ELSE heap[data]

\* Mutant of Available: only the success of the last update counts.
Available_UpdateOnly(d) == last_update_success

\* Mutant of Available: the outcome of the last update is not looked at.
Available_DataOnly(d) ==
    /\ d \in DOMAIN Snapshot
    /\ Snapshot[d].shape = "rec"

\* The available property of the switch, sensor and binary-sensor entities:
\* the last update succeeded, the device is in coordinator.data and its
\* "command" list is not empty.
Available(d) ==
    /\ last_update_success
    /\ d \in DOMAIN Snapshot
    /\ Snapshot[d].shape = "rec"

\* is_on of the switch of device d.
IsOn(d) == IsOnIn(Snapshot, d)

\* ------------------------------------------------ sensor.py (36-54, 350-396)

\* The fields whose values are strings in the records of the model.
StringFields == {"flow_velocity", "water_total", "water_temp"}

\* float(raw_value.strip(' "%')) on the strings of the records, in
\* hundredths; ValueError for a text that is no number.
StrToFloat(s) ==
    CASE s = "0.00" -> [float |-> 0, ValueError |-> FALSE]
      [] s = "1.50" -> [float |-> 150, ValueError |-> FALSE]
      [] s = "7.25" -> [float |-> 725, ValueError |-> FALSE]
      [] s = "20.0" -> [float |-> 2000, ValueError |-> FALSE]
      [] s = "20" -> [float |-> 2000, ValueError |-> FALSE]
      [] OTHER -> [float |-> 0, ValueError |-> TRUE]

\* Mutant of battery_level_map: the scale of signal_strength_map, 0..4.
battery_level_map_OfFour(value) ==
    IF 0 <= value /\ value <= 4 THEN (value * 100) \div 4 ELSE 0

\* battery_level_map on an integer: int((value / 5) * 100) for a value in
\* 0..5, else 0.
battery_level_map(value) ==
    IF 0 <= value /\ value <= 5 THEN (value * 100) \div 5 ELSE 0

\* signal_strength_map on an integer: int((value / 4) * 100) for a value in
\* 0..4, else 0.
signal_strength_map(value) ==
    IF 0 <= value /\ value <= 4 THEN (value * 100) \div 4 ELSE 0

\* The sensor descriptions of a device: the field read and the value map.
\* The fields with a value map hold integers.
SensorDescriptions(d) ==
    IF DeviceModel(d) = MODEL_AC1100
    THEN {[value_fn |-> "realtime_power", value_map |-> "none"],
          [value_fn |-> "ac_voltage", value_map |-> "none"],
          [value_fn |-> "ac_current", value_map |-> "none"],
          [value_fn |-> "elect_total", value_map |-> "none"],
          [value_fn |-> "rssi", value_map |-> "signal_strength_map"],
          [value_fn |-> "rssi", value_map |-> "none"],
          [value_fn |-> "gw_rssi", value_map |-> "none"]}
    ELSE {[value_fn |-> "flow_velocity", value_map |-> "none"],
          [value_fn |-> "water_total", value_map |-> "none"],
          [value_fn |-> "wfc01batt", value_map |-> "battery_level_map"],
          [value_fn |-> "rssi", value_map |-> "signal_strength_map"],
          [value_fn |-> "rssi", value_map |-> "none"],
          [value_fn |-> "gw_rssi", value_map |-> "none"],
          [value_fn |-> "water_temp", value_map |-> "none"]}

BatteryDescription == [value_fn |-> "wfc01batt", value_map |-> "battery_level_map"]

\* EcowittSensor.native_value on the dict `snap` as coordinator.data: None
\* when data[id]["command"][0] raises or a string is no number; the float
\* of a string field; the mapped or the raw value of an integer field,
\* 0 standing for a field the record does not have.
NativeValueIn(snap, d, desc) ==
    IF d \notin DOMAIN snap \/ snap[d].shape # "rec" THEN "None"
    ELSE LET device_data == snap[d].f IN
         IF desc.value_fn \in DOMAIN device_data
                /\ desc.value_fn \in StringFields
         THEN LET raw_value == StrToFloat(device_data[desc.value_fn]) IN
              IF raw_value.ValueError THEN "None"
              ELSE [float |-> raw_value.float]
         ELSE LET raw_value == Get(device_data, desc.value_fn, 0) IN
              IF desc.value_map = "battery_level_map"
              THEN battery_level_map(raw_value)
              ELSE IF desc.value_map = "signal_strength_map"
              THEN signal_strength_map(raw_value)
              ELSE raw_value

NativeValue(d, desc) == NativeValueIn(Snapshot, d, desc)

\* ----------------------------------------- binary_sensor.py (35-125, 187-226)

\* The warning flags of a device: the bit of the warning byte and whether
\* the sensor shows the opposite of the bit ("offline" as connectivity).
BinaryDescriptions(d) ==
    {[bit_position |-> b, inverted |-> FALSE] : b \in 0..4}
        \cup {[bit_position |-> 7, inverted |-> TRUE]}

\* 2 to the power n.
RECURSIVE Pow2(_)
Pow2(n) == IF n = 0 THEN 1 ELSE 2 * Pow2(n - 1)

\* Mutant of BitSet: the byte is shifted by a multiple of the bit position
\* instead of a power of two.
BitSet_AsMask(w, b) == (w \div (b + 1)) % 2 = 1

\* bool(warning_byte & (1 << bit_position))
BitSet(w, b) == (w \div Pow2(b)) % 2 = 1

\* EcowittBinarySensor.is_on on the dict `snap` as coordinator.data.
BinaryIsOnIn(snap, d, desc) ==
    IF d \notin DOMAIN snap \/ snap[d].shape # "rec" THEN "None"
    ELSE LET warning_byte == Get(snap[d].f, "warning", 0)
             bit_value == BitSet(warning_byte, desc.bit_position)
         IN  PyBool(IF desc.inverted THEN ~bit_value ELSE bit_value)

BinaryIsOn(d, desc) == BinaryIsOnIn(Snapshot, d, desc)

\* ------------------------------------------------------ switch attributes

\* extra_state_attributes of the switch of device d: the diagnostic
\* attributes of its PendingCommand.
ExtraStateAttributes(d) ==
    [command_pending |-> pending[d].status = "pending",
     command_target_state |-> IF pending[d].status = "idle" THEN "None"
                              ELSE PyBool(pending[d].target_state),
     verification_attempts |-> pending[d].verification_attempts,
     last_error |-> pending[d].last_error]

\* A cycle has just published its result: no later cycle has started, so
\* outcome holds the responses of the published cycle.
JustPublished == loaded /\ pc = "idle" /\ last_update_success

\* A cycle has just been aborted by UpdateFailed.
JustAborted == loaded /\ pc = "idle" /\ ~last_update_success

\* The step that reads device d in the current cycle.
ReadStep(d) ==
    /\ pc = "fetch"
    /\ pc' = "fetch"
    /\ ~LoopDone(idx)
    /\ devices[idx] = d
    /\ outcome'[d] # NoResp

\* The step in which a cycle publishes, and the one in which it is aborted.
PublishStep == pc = "fetch" /\ pc' = "idle" /\ LoopDone(idx)
AbortStep == pc = "fetch" /\ pc' = "idle" /\ ~LoopDone(idx)

\* The records _get_default_data can have made for d up to now.
IsDefault(d, v) == \E t \in 0..now : v = DefaultData(d, t)

\* ------------------------------------------------------------------ claims

\* C1 (as stated): after a refresh() cycle that completes successfully the
\* published Snapshot has an entry for every device of the Registry.
C1_EveryDevicePresent ==
    JustPublished => \A d \in DeviceIds : d \in DOMAIN Snapshot

\* A device the completed cycle leaves out of its Snapshot: its read failed
\* with nothing cached, or the value the read yielded (the parsed JSON, or the
\* cached value reused on "200 OK") is an empty JSON value.
LeftOut(d) ==
    \/ FetchRaises(outcome[d]) /\ d \notin DOMAIN last_good
    \/ outcome[d].kind = "json" /\ ~Truthy(outcome[d].val)
    \/ outcome[d].kind = "ack" /\ d \in DOMAIN last_good /\ ~Truthy(last_good[d])

\* C1 (amended): after a refresh() cycle that completes successfully the
\* published Snapshot has an entry for every device of the Registry except
\* those whose read failed while nothing was cached for them and those whose
\* read yielded an empty JSON value; exactly these are missing.
C1_PresentUnlessLeftOut ==
    JustPublished =>
        \A d \in DeviceIds : (d \in DOMAIN Snapshot) <=> ~LeftOut(d)

\* C1 witness: a completed cycle with every device present, one of them with
\* a synthesized default.
C1_Witness ==
    /\ JustPublished
    /\ DOMAIN Snapshot = DeviceIds
    /\ \E d \in DeviceIds : outcome[d].kind = "ack" /\ d \notin DOMAIN last_good

\* C2: in a published cycle every device was attempted, whatever failed
\* before it; every device whose read returned a record (a non-empty JSON
\* value) has exactly that record in the Snapshot; and every entry of the
\* Snapshot is a whole value: the fresh one, the cached one or a default.
C2_FailureDoesNotStopOthers ==
    JustPublished =>
        /\ \A d \in DeviceIds : outcome[d] # NoResp
        /\ \A d \in DeviceIds :
              (outcome[d].kind = "json" /\ Truthy(outcome[d].val)) =>
                  (d \in DOMAIN Snapshot /\ Snapshot[d] = outcome[d].val)
        /\ \A d \in DOMAIN Snapshot :
              \/ outcome[d].kind = "json" /\ Snapshot[d] = outcome[d].val
              \/ d \in DOMAIN last_good /\ Snapshot[d] = last_good[d]
              \/ IsDefault(d, Snapshot[d])

\* C2 witness: the first device's read timed out and the second device, read
\* after it, has its fresh record in the Snapshot.
C2_Witness ==
    /\ JustPublished
    /\ outcome[devices[1]].kind = "timeout"
    /\ outcome[devices[2]].kind = "json"
    /\ devices[2] \in DOMAIN Snapshot
    /\ Snapshot[devices[2]] = DeviceRecord(devices[2], 1)

\* C3: a device whose read failed in the published cycle has exactly its
\* LastGoodCache entry in the Snapshot if there is one, and is absent from the
\* Snapshot if there is none.
C3_FailedReadFallsBack ==
    JustPublished =>
        \A d \in DeviceIds :
            FetchRaises(outcome[d]) =>
                IF d \in DOMAIN last_good
                THEN d \in DOMAIN Snapshot /\ Snapshot[d] = last_good[d]
                ELSE d \notin DOMAIN Snapshot

\* C3 witness: both cases in one cycle, a failed read with a cached record and
\* a failed read with none.
C3_Witness ==
    /\ JustPublished
    /\ \E d \in DeviceIds :
          /\ FetchRaises(outcome[d])
          /\ d \in DOMAIN last_good
          /\ d \in DOMAIN Snapshot
    /\ \E d \in DeviceIds :
          /\ FetchRaises(outcome[d])
          /\ d \notin DOMAIN last_good
          /\ d \notin DOMAIN Snapshot

\* C4: a device that answered "200 OK" in the published cycle has its
\* LastGoodCache entry in the Snapshot if there is one and else a synthesized
\* default; and the read that is answered "200 OK" leaves the cache as it is.
C4_AckUsesCacheOrDefault ==
    /\ [](JustPublished =>
            \A d \in DeviceIds :
                outcome[d].kind = "ack" =>
                    /\ d \in DOMAIN Snapshot
                    /\ IF d \in DOMAIN last_good
                       THEN Snapshot[d] = last_good[d]
                       ELSE IsDefault(d, Snapshot[d]))
    /\ [][\A d \in DeviceIds :
            (ReadStep(d) /\ outcome'[d].kind = "ack") => last_good' = last_good]_vars

\* The first refresh failed: the setup raises ConfigEntryNotReady and this
\* coordinator, with its cache, is discarded.
SetupFailedStep == ~loaded /\ AbortStep

\* LastGoodCache[d] is not the same before and after the step.
CacheChanged(d) ==
    \/ (d \in DOMAIN last_good) # (d \in DOMAIN last_good')
    \/ /\ d \in DOMAIN last_good
       /\ d \in DOMAIN last_good'
       /\ last_good'[d] # last_good[d]

\* C5: within a session LastGoodCache[d] changes only in the step in which a
\* read of d returns parsed JSON, and then holds the parsed value; every other
\* step (failed read, "200 OK", abort, publication, command) leaves it as it
\* is, and an entry is never removed.
C5_CacheChangesOnlyOnParse ==
    [][~SetupFailedStep =>
        \A d \in DeviceIds :
            /\ d \in DOMAIN last_good => d \in DOMAIN last_good'
            /\ CacheChanged(d) => (ReadStep(d) /\ outcome'[d].kind = "json")
            /\ (ReadStep(d) /\ outcome'[d].kind = "json") =>
                  (d \in DOMAIN last_good' /\ last_good'[d] = outcome'[d].val)]_vars

\* C5 witness: a cached record has survived a failed read of its device in a
\* cycle that was then aborted, and an accepted command.
C5_Witness ==
    /\ JustAborted
    /\ cmd.result = "ok"
    /\ \E d \in DeviceIds :
          /\ outcome[d].kind = "timeout"
          /\ d \in DOMAIN last_good
          /\ last_good[d] = DeviceRecord(d, 1)

\* C6 (as stated): a device that has had a successful poll (it has a
\* LastGoodCache entry, which C5 shows is never removed) is in every Snapshot
\* published afterwards, and a device that has had none is unavailable.
C6_PolledAlwaysShown ==
    /\ JustPublished =>
          \A d \in DeviceIds : d \in DOMAIN last_good => d \in DOMAIN Snapshot
    /\ loaded =>
          \A d \in DeviceIds : d \notin DOMAIN last_good => ~Available(d)

\* C6 (amended): a device that has had a successful poll is in every Snapshot
\* published afterwards unless its cached value is an empty JSON value and its
\* read did not fail; a device that has had none never shows device data: it
\* is in a published Snapshot exactly when its read was answered "200 OK",
\* and then with a synthesized default.
C6_PolledShownUnlessEmpty ==
    /\ JustPublished =>
          \A d \in DeviceIds :
              IF d \in DOMAIN last_good
              THEN (d \in DOMAIN Snapshot) <=>
                      (Truthy(last_good[d]) \/ FetchRaises(outcome[d]))
              ELSE (d \in DOMAIN Snapshot) <=> (outcome[d].kind = "ack")
    /\ loaded =>
          \A d \in DeviceIds :
              (d \notin DOMAIN last_good /\ d \in DOMAIN Snapshot) =>
                  IsDefault(d, Snapshot[d])

\* C6 witness: after commands, one device shows its stale record through a
\* failed read while the other, never polled successfully, shows a default.
C6_Witness ==
    /\ JustPublished
    /\ cmd.result = "ok"
    /\ \E d \in DeviceIds :
          /\ FetchRaises(outcome[d])
          /\ d \in DOMAIN last_good
          /\ d \in DOMAIN Snapshot
          /\ Snapshot[d] = DeviceRecord(d, 1)
    /\ \E d \in DeviceIds :
          /\ d \notin DOMAIN last_good
          /\ Available(d)

\* Every activity field of a record of d's model is zero.
ActivityZero(d, v) ==
    /\ v.shape = "rec"
    /\ IF DeviceModel(d) = 1
       THEN /\ v.f.water_status = 0
            /\ v.f.flow_velocity = "0.00"
            /\ v.f.water_total = "0.00"
       ELSE /\ v.f.ac_status = 0
            /\ v.f.realtime_power = 0
            /\ v.f.ac_voltage = 0
            /\ v.f.ac_current = 0

\* The first two parts of C7: a read answered "200 OK" with nothing cached
\* puts a default for the device's model, stamped with the time of the read,
\* in the cycle's result, and once published the device is available.
C7_DefaultOnAck ==
    /\ [][\A d \in DeviceIds :
            (ReadStep(d) /\ outcome'[d].kind = "ack" /\ d \notin DOMAIN last_good) =>
                /\ d \in DOMAIN heap'[cycObj]
                /\ heap'[cycObj][d].f.model = DeviceModel(d)
                /\ heap'[cycObj][d].f.timeutc = now
                /\ ActivityZero(d, heap'[cycObj][d])]_vars
    /\ [](JustPublished =>
            \A d \in DeviceIds :
                (outcome[d].kind = "ack" /\ d \notin DOMAIN last_good) =>
                    /\ d \in DOMAIN Snapshot
                    /\ IsDefault(d, Snapshot[d])
                    /\ ActivityZero(d, Snapshot[d])
                    /\ Available(d))

\* C7 (as stated): the default on "200 OK", and from then on the device has a
\* record in every Snapshot: the Snapshot that replaces one holding the
\* device's default holds a record for the device.
C7_DefaultThenAlwaysPresent ==
    /\ C7_DefaultOnAck
    /\ [][\A d \in DeviceIds :
            (PublishStep /\ d \in DOMAIN Snapshot /\ IsDefault(d, Snapshot[d])) =>
                d \in DOMAIN Snapshot']_vars

\* C7 (amended): the default on "200 OK"; the default is not cached, so while
\* the device has no LastGoodCache entry a later Snapshot holds a record for
\* it exactly when its read was again answered "200 OK": a failed read
\* leaves it out.
C7_DefaultNotKept ==
    /\ C7_DefaultOnAck
    /\ [][\A d \in DeviceIds :
            (PublishStep /\ d \notin DOMAIN last_good) =>
                ((d \in DOMAIN Snapshot') <=> (outcome[d].kind = "ack"))]_vars

\* C7 witness: the valve 12345, never polled successfully, answered "200 OK"
\* and is available with a default stamped after the clock has advanced.
C7_Witness ==
    /\ JustPublished
    /\ outcome["12345"].kind = "ack"
    /\ "12345" \notin DOMAIN last_good
    /\ Available("12345")
    /\ Snapshot["12345"] = DefaultData("12345", 1)

\* C8: a cycle builds its result in an object that is not the published one,
\* publication switches coordinator.data to that object, and as long as
\* coordinator.data refers to an object no step (read, cache update, abort,
\* command) changes that object's contents.
C8_PublishedNeverMutated ==
    /\ [](pc = "fetch" => (cycObj \in ObjIds /\ cycObj # data))
    /\ [][(data # 0 /\ data' = data) => heap'[data] = heap[data]]_vars
    /\ [][data' # data => (PublishStep /\ data' = cycObj)]_vars

\* C8 witness: a cycle has put a record in its own object while the published
\* object holds the previous result and a command is in flight.
C8_Witness ==
    /\ loaded
    /\ pc = "fetch"
    /\ cmd.pc = "settle"
    /\ heap[cycObj] # EmptyDict
    /\ Snapshot # EmptyDict
    /\ heap[cycObj] # Snapshot

\* C9: once set up, readers always have one Snapshot, which is not the one
\* under construction; what they see changes only in the single step in which
\* a cycle that has attempted every device publishes its whole result.
C9_PublishedAtOnceWhenComplete ==
    /\ [](loaded => (data \in ObjIds /\ data # cycObj))
    /\ [][(data' # data \/ Snapshot' # Snapshot) =>
            /\ PublishStep
            /\ \A d \in DeviceIds : outcome[d] # NoResp
            /\ Snapshot' = heap[cycObj]]_vars

\* C9 witness: a cycle has read its first device only, and readers still see
\* the whole previous result, which holds both devices.
C9_Witness ==
    /\ loaded
    /\ pc = "fetch"
    /\ idx = 2
    /\ DOMAIN heap[cycObj] = {devices[1]}
    /\ DOMAIN Snapshot = DeviceIds

\* C10: when the cycle timeout or an unexpected exception ends a cycle, the
\* Snapshot keeps every entry it had (those of the devices not yet attempted
\* among them), the update is marked failed, and a new cycle can start.
C10_AbortKeepsSnapshot ==
    /\ [][(loaded /\ AbortStep) =>
            /\ data' = data
            /\ Snapshot' = Snapshot
            /\ ~last_update_success'
            /\ pc' = "idle"]_vars
    /\ [](JustAborted => ENABLED StartRefresh)

\* C10 witness: a cycle was aborted after its first device had returned a new
\* record; the second device, not attempted, keeps its entry.
C10_Witness ==
    /\ JustAborted
    /\ outcome[devices[1]].kind = "json"
    /\ outcome[devices[2]] = NoResp
    /\ devices[2] \in DOMAIN Snapshot
    /\ devices[1] \in DOMAIN Snapshot
    /\ Snapshot[devices[1]] # last_good[devices[1]]

\* C11: the polling loop reschedules itself after every cycle outcome
\* (success, partial success, hard failure): whenever no cycle is in flight,
\* another cycle eventually starts.
C11_LoopReschedules == (pc = "idle") ~> (pc = "fetch")

\* C11 witness: a cycle is in flight that started after a cycle ended in a
\* hard failure (the update is still marked failed).
C11_Witness ==
    /\ loaded
    /\ pc = "fetch"
    /\ ~last_update_success

\* The step in which the read of device d raises (a transport error, a
\* timeout, or a text that is no JSON).
FailedReadStep(d) ==
    /\ pc = "fetch"
    /\ ~LoopDone(idx)
    /\ devices[idx] = d
    /\ FetchRaises(outcome'[d])

C13_UnknownDeviceFails ==
    /\ [](cmd.pc # "idle" => cmd.dev \in DeviceIds)
    /\ [][(cmd'.result = "ValueError" /\ cmd' # cmd) =>
            /\ cmd.pc = "idle"
            /\ cmd'.pc = "idle"
            /\ UNCHANGED <<now, loaded, last_good, heap, data,
                           last_update_success, pc, cycObj, idx, outcome,
                           refreshRequested, pending>>]_vars

\* C13 witness: a call with an unknown identifier has failed while a command
\* of a configured device is pending, and no refresh is requested.
C13_Witness ==
    /\ cmd = IdleCmd("ValueError")
    /\ ~refreshRequested
    /\ \E d \in DeviceIds : pending[d].status = "pending"

\* C14: a set_device_state whose write is answered by anything but "200 OK",
\* or whose request fails, ends in that same step with an error raised to the
\* caller (UpdateFailed): the call is over (the write is not sent again), and
\* the step records no PendingCommand, requests no refresh and never reaches
\* the settle delay; only a write answered "200 OK" gets there.
C14_RejectedWriteRaises ==
    /\ [][(cmd.pc = "posted" /\ cmd'.resp # "ack" /\ cmd' # cmd) =>
            /\ cmd'.pc = "idle"
            /\ cmd'.result = "UpdateFailed"
            /\ UNCHANGED <<now, loaded, last_good, heap, data,
                           last_update_success, pc, cycObj, idx, outcome,
                           refreshRequested, pending>>]_vars
    /\ [](cmd.pc = "settle" => cmd.resp = "ack")

\* C14 witness: a write was answered with another text and the call ended in
\* UpdateFailed, with no PendingCommand and no refresh request.
C14_Witness ==
    /\ cmd.pc = "idle"
    /\ cmd.result = "UpdateFailed"
    /\ cmd.resp = "rejected"
    /\ ~refreshRequested
    /\ \A d \in DeviceIds : pending[d] = NoCommand

\* The step in which the write of a command for device d is accepted.
AcceptStep(d) == cmd.pc = "posted" /\ cmd'.pc = "settle" /\ cmd.dev = d

C16_CommandEventsOrdered ==
    /\ [][cmd' # cmd =>
            \/ /\ cmd.pc = "idle"
               /\ cmd'.pc = "posted"
               /\ cmd'.resp = "none"
               /\ refreshRequested' = refreshRequested
            \/ /\ cmd.pc = "idle"
               /\ cmd' = IdleCmd("ValueError")
               /\ refreshRequested' = refreshRequested
            \/ /\ cmd.pc = "posted"
               /\ cmd' = [cmd EXCEPT !.pc = "settle", !.resp = "ack"]
               /\ refreshRequested' = refreshRequested
            \/ /\ cmd.pc = "posted"
               /\ cmd'.pc = "idle"
               /\ cmd'.result = "UpdateFailed"
               /\ cmd'.resp # "ack"
               /\ refreshRequested' = refreshRequested
            \/ /\ cmd.pc = "settle"
               /\ cmd.resp = "ack"
               /\ cmd' = IdleCmd("ok")
               /\ refreshRequested']_vars
    /\ [][(~refreshRequested /\ refreshRequested') =>
            (cmd.pc = "settle" /\ cmd.resp = "ack" /\ cmd'.result = "ok")]_vars
    /\ [](cmd.result = "ok" => cmd.pc = "idle")

\* C16 witness: a call has returned normally and the refresh it requested is
\* waiting to start.
C16_Witness ==
    /\ cmd = IdleCmd("ok")
    /\ refreshRequested
    /\ pc = "idle"

\* C17: there is one PendingCommand record per configured device and no
\* other; a command accepted while the device's command is pending or
\* exhausted replaces it by a new PendingCommand (the requested target,
\* attempt count 0, no error) and leaves the other devices' commands alone.
C17_OneCommandPerDevice ==
    /\ [](DOMAIN pending = DeviceIds)
    /\ [][\A d \in DeviceIds :
            (AcceptStep(d) /\ pending[d].status \in {"pending", "exhausted"}) =>
                /\ pending'[d] = [status |-> "pending",
                                  target_state |-> cmd.state,
                                  verification_attempts |-> 0,
                                  last_error |-> "none"]
                /\ \A e \in DeviceIds \ {d} : pending'[e] = pending[e]]_vars

\* C17 witness: the write of a new command is in flight for a device whose
\* earlier command, with the other target, is exhausted.
C17_Witness ==
    /\ cmd.pc = "posted"
    /\ pending[cmd.dev].status = "exhausted"
    /\ pending[cmd.dev].last_error # "none"
    /\ pending[cmd.dev].target_state # cmd.state

\* The step that publishes a Snapshot in which the observed state of device d
\* equals (match = TRUE) or differs from (match = FALSE) the target of its
\* PendingCommand.
VerifyStep(d, match) ==
    /\ PublishStep
    /\ pending[d].status = "pending"
    /\ (ObservedState(heap[cycObj], d) = PyBool(pending[d].target_state)) = match

\* C18: when a Snapshot is published in which the observed state of a device
\* equals the target of its PendingCommand, the PendingCommand is cleared, and
\* is_on equals the target while the command is pending (before the step) and
\* after it is cleared.
C18_MatchClearsCommand ==
    [][\A d \in DeviceIds : VerifyStep(d, TRUE) =>
        /\ pending'[d] = NoCommand
        /\ IsOn(d) = PyBool(pending[d].target_state)
        /\ IsOn(d)' = PyBool(pending[d].target_state)]_vars

\* C19: while a device has a PendingCommand without error, is_on is the
\* command's target even when the Snapshot shows the opposite; and each
\* Snapshot published with a mismatching observed state while the attempt
\* count is below the ceiling adds exactly one to the attempt count and
\* leaves the command pending.
C19_PendingReportsTarget ==
    /\ [](\A d \in DeviceIds :
            pending[d].status = "pending" =>
                IsOn(d) = PyBool(pending[d].target_state))
    /\ [][\A d \in DeviceIds :
            (/\ VerifyStep(d, FALSE)
             /\ pending[d].verification_attempts < MAX_VERIFICATION_ATTEMPTS) =>
                pending'[d] = [pending[d] EXCEPT
                                 !.verification_attempts = @ + 1]]_vars

\* C20: when a Snapshot with a mismatching observed state is published while
\* the attempt count of the device's PendingCommand is at the ceiling, the
\* command is exhausted: last_error is set, the command is no longer pending,
\* is_on is the state observed in the published Snapshot and not the target,
\* and nothing is raised: the refresh succeeds and no set_device_state call is
\* affected.
C20_ExhaustedRevertsToObserved ==
    [][\A d \in DeviceIds :
        (/\ VerifyStep(d, FALSE)
         /\ pending[d].verification_attempts = MAX_VERIFICATION_ATTEMPTS) =>
            /\ pending'[d].status = "exhausted"
            /\ pending'[d].last_error # "none"
            /\ pending'[d].target_state = pending[d].target_state
            /\ ~ExtraStateAttributes(d)'.command_pending
            /\ ExtraStateAttributes(d)'.last_error # "none"
            /\ IsOn(d)' = ObservedState(Snapshot', d)
            /\ IsOn(d)' # PyBool(pending[d].target_state)
            /\ last_update_success'
            /\ cmd' = cmd]_vars

\* C20 witness: the command to switch a device on is exhausted after the
\* attempts of the ceiling, and is_on is the observed state, off.
C20_Witness ==
    \E d \in DeviceIds :
        /\ pending[d].status = "exhausted"
        /\ pending[d].verification_attempts = MAX_VERIFICATION_ATTEMPTS
        /\ pending[d].target_state = TRUE
        /\ pending[d].last_error # "none"
        /\ JustPublished
        /\ IsOn(d) = "False"

\* C21: the command of a device moves only along Idle -> Pending ->
\* {Resolved -> Idle, Exhausted (idle, with its error)}, a new command
\* starting Pending again; the attempt count never exceeds the ceiling; and
\* provided cycles keep being completed (Snapshots keep being published), a
\* pending command eventually is no longer pending (resolved or exhausted),
\* unless a new command for the device is accepted.  ("Pending leads to not
\* pending or newly accepted" is stated in its equivalent form "infinitely
\* often not pending or newly accepted".)
C21_CommandLifecycle ==
    /\ [](\A d \in DeviceIds :
            /\ pending[d].status \in {"idle", "pending", "exhausted"}
            /\ pending[d].verification_attempts \in 0..MAX_VERIFICATION_ATTEMPTS
            /\ (pending[d].status = "idle") => (pending[d] = NoCommand)
            /\ (pending[d].status = "exhausted") <=>
                    (pending[d].last_error # "none"))
    /\ [][\A d \in DeviceIds : (pending'[d] # pending[d]) =>
            \/ /\ AcceptStep(d)
               /\ pending'[d].status = "pending"
            \/ /\ PublishStep
               /\ pending[d].status = "pending"
               /\ \/ pending'[d] = NoCommand
                  \/ /\ pending'[d].status = "pending"
                     /\ pending'[d].verification_attempts =
                            pending[d].verification_attempts + 1
                  \/ /\ pending'[d].status = "exhausted"
                     /\ pending[d].verification_attempts =
                            MAX_VERIFICATION_ATTEMPTS]_vars
    /\ ([]<>(pc = "fetch" /\ LoopDone(idx))) =>
            \A d \in DeviceIds :
                []<>(\/ pending[d].status # "pending"
                     \/ cmd.pc = "settle" /\ cmd.dev = d)

\* C21 witness: a command has gone through every attempt of the ceiling and
\* is still pending: the next mismatching Snapshot exhausts it.
C21_Witness ==
    \E d \in DeviceIds :
        /\ pending[d].status = "pending"
        /\ pending[d].verification_attempts = MAX_VERIFICATION_ATTEMPTS
        /\ pc = "fetch"
        /\ LoopDone(idx)
        /\ ObservedState(heap[cycObj], d) # PyBool(pending[d].target_state)

\* The value of the field k of the record of d in the Snapshot, 0 when the
\* record does not carry the field.
FieldOf(d, k) ==
    IF k \in DOMAIN Snapshot[d].f THEN Snapshot[d].f[k] ELSE 0

C23_OneCallAndReraise ==
    \A d \in DeviceIds :
        /\ entity[d].service = "turn_on" =>
                entity[d].calls = <<[id |-> d, state |-> TRUE]>>
        /\ entity[d].service = "turn_off" =>
                entity[d].calls = <<[id |-> d, state |-> FALSE]>>
        /\ entity[d].raised # "none" =>
                /\ entity[d].pc = "idle"
                /\ entity[d].result = entity[d].raised
        /\ entity[d].result = "ok" => entity[d].raised = "none"

\* C23 witness: a turn-on has ended with the error of its rejected write
\* while the turn-off of the other switch has made its call and returned.
C23_Witness ==
    \E d, e \in DeviceIds :
        /\ entity[d].service = "turn_on"
        /\ entity[d].raised = "UpdateFailed"
        /\ entity[d].result = "UpdateFailed"
        /\ entity[e].service = "turn_off"
        /\ entity[e].pc = "idle"
        /\ entity[e].result = "ok"
        /\ Len(entity[e].calls) = 1

\* The entity of d has its write accepted in this step.
EntityAcceptStep(d) == entity[d].pc = "posted" /\ entity'[d].pc = "settle"

\* C26: a service call of an idle entity can always make its
\* set_device_state call and send the write, whether a poll cycle is in
\* flight or the command of another device is in its settle delay; a
\* Snapshot is published in one step, as the complete dict of the cycle, and
\* is not changed while it is published; and the PendingCommands change in
\* one step, either the command of the one device whose write is accepted
\* or all of them by the reconciliation with the Snapshot being published.
C26_CommandsNotBlocked ==
    /\ [](\A d \in DeviceIds : (loaded /\ entity[d].pc = "idle") =>
              ENABLED AsyncTurn(d, "turn_on"))
    /\ [][
          /\ (data' # data) =>
                /\ pc = "fetch" /\ LoopDone(idx) /\ pc' = "idle"
                /\ data' = cycObj
                /\ heap'[data'] = heap[cycObj]
          /\ (data' = data /\ data # 0) => (heap'[data] = heap[data])
          /\ (pending' # pending) =>
                \/ \E d \in DeviceIds :
                      /\ EntityAcceptStep(d)
                      /\ pending' = [pending EXCEPT ![d] =
                                       NewCommand(StateArg(entity[d].service))]
                \/ /\ data' # data
                   /\ pending' = Reconcile(pending, heap'[data'])
       ]_vars

\* C26 witness: a write is in flight while a poll cycle is reading the
\* devices and the command of the other device is in its settle delay.
C26_Witness ==
    \E d, e \in DeviceIds :
        /\ d # e
        /\ pc = "fetch"
        /\ ~LoopDone(idx)
        /\ entity[d].pc = "posted"
        /\ entity[e].pc = "settle"
        /\ pending[e].status = "pending"

\* The body " 200 OK %" followed by a line feed.
PaddedOkText == <<" ">> \o OkText \o <<" ", "%", "\n">>

\* C28: the body " 200 OK %\n" is the plain acknowledgement on the poll
\* path and on the command path: it is cleaned to "200 OK", it is never
\* handed to json.loads and never ends as a parse failure or a rejection.
C28_PaddedOkIsAck ==
    (text = PaddedOkText /\ normalized.path \in {"poll", "command"}) =>
        /\ normalized.cleaned = OkText
        /\ normalized.kind = "ack"
        /\ ~normalized.parsed

\* C28 witness: the poll path has classified that body.
C28_Witness ==
    /\ text = PaddedOkText
    /\ normalized.path = "poll"
    /\ normalized.kind = "ack"

\* C29: on every path, a body whose cleaned text is empty or begins with
\* "<" is never handed to json.loads, and it ends as a failure (a failed
\* read, a rejected write, an invalid answer), never as data or as an
\* acknowledgement.
C29_EmptyOrHtmlNotParsed ==
    (/\ normalized.path # "none"
     /\ normalized.cleaned = <<>> \/ StartsWith(normalized.cleaned, "<")) =>
        /\ ~normalized.parsed
        /\ normalized.kind \in {"empty", "html", "bad", "rejected"}

\* The number of "%" characters in a text.
PercentCount(s) == Cardinality({i \in DOMAIN s : s[i] = "%"})

\* C30: a body is accepted as "200 OK" only if the trim had to remove
\* nothing but whitespace and at most one "%", and that "%" after the
\* "200 OK": "200 OK%%" and "%200 OK" are not accepted.
C30_OneTrailingPercent ==
    normalized.kind = "ack" =>
        /\ PercentCount(text) <= 1
        /\ ~StartsWith(LStrip(text, JsonWhitespace), "%")

\* C31: a parsed response without a "command" list of at least one element
\* is never stored and never published: every entry of _last_good_data and
\* every entry of the published Snapshot holds a non-empty "command" list.
C31_OnlyRecordsKept ==
    /\ \A d \in DOMAIN last_good : last_good[d].shape = "rec"
    /\ \A d \in DOMAIN Snapshot : Snapshot[d].shape = "rec"

\* C32: the value a read parsed is kept as it is: in the step that reads a
\* device with a JSON answer, the record stored in _last_good_data and the
\* record put in the dict of the cycle are the parsed value, field by
\* field; and after the publication the Snapshot entry and the cache entry
\* of such a device are that value, the string "20.0" of "water_temp"
\* still being the string "20.0".
C32_FieldsPreserved ==
    /\ [][\A d \in DeviceIds :
            (ReadStep(d) /\ outcome'[d].kind = "json") =>
                /\ last_good'[d] = outcome'[d].val
                /\ d \in DOMAIN heap'[cycObj] =>
                        heap'[cycObj][d] = outcome'[d].val]_vars
    /\ [](\A d \in DeviceIds :
            (JustPublished /\ outcome[d].kind = "json") =>
                /\ last_good[d] = outcome[d].val
                /\ d \in DOMAIN Snapshot => Snapshot[d] = outcome[d].val
                /\ (outcome[d].val.shape = "rec"
                        /\ DeviceModel(d) = MODEL_WFC01) =>
                        /\ Snapshot[d].f.water_temp = "20.0"
                        /\ last_good[d].f.water_temp = "20.0")

\* C32 witness: a Snapshot with the parsed record of the valve, whose
\* "water_temp" is "20.0", has been published.
C32_Witness ==
    \E d \in DeviceIds :
        /\ JustPublished
        /\ DeviceModel(d) = MODEL_WFC01
        /\ outcome[d].kind = "json"
        /\ outcome[d].val.shape = "rec"
        /\ outcome[d].val.f.water_temp = "20.0"
        /\ Snapshot[d] = outcome[d].val
        /\ last_good[d] = outcome[d].val

\* Two parsed values with the same fields and the same value of every field
\* but "timeutc".
SameButTime(a, b) ==
    /\ a.shape = b.shape
    /\ DOMAIN a.f = DOMAIN b.f
    /\ \A k \in DOMAIN a.f : k # "timeutc" => a.f[k] = b.f[k]

\* C33: when a cycle in which every device answered as in the cycle before
\* publishes, the new Snapshot has the devices of the one it replaces, and
\* each entry has the same fields with the same values, the timestamp
\* field "timeutc" excepted.
C33_RefreshIdempotent ==
    [][(PublishStep /\ repeated) =>
          /\ DOMAIN heap'[data'] = DOMAIN heap[data]
          /\ \A d \in DOMAIN heap[data] :
                SameButTime(heap'[data'][d], heap[data][d])]_vars

\* C33 witness: a cycle that repeats the answers of the one before is about
\* to publish, later than the Snapshot was made, with a device that
\* answered "200 OK" and has its default record in the Snapshot and a
\* device whose read failed and is served from the cache.
C33_Witness ==
    \E d, e \in DeviceIds :
        /\ pc = "fetch" /\ LoopDone(idx) /\ repeated
        /\ outcome[d].kind = "ack"
        /\ d \in DOMAIN heap[data]
        /\ heap[data][d] = DefaultData(d, 0)
        /\ heap[cycObj][d] = DefaultData(d, 1)
        /\ outcome[e].kind = "timeout"
        /\ e \in DOMAIN heap[data]
        /\ heap[cycObj][e] = heap[data][e]

\* C34: once the entry is set up, a device that is not in the published
\* Snapshot is unavailable to its switch, its sensors and its binary
\* sensors alike, and reading their state gives None.
C34_OmittedIsUnavailable ==
    \A d \in DeviceIds :
        (loaded /\ d \notin DOMAIN Snapshot) =>
            /\ ~Available(d)
            /\ IsOn(d) = "None"
            /\ \A desc \in SensorDescriptions(d) :
                    NativeValue(d, desc) = "None"
            /\ \A desc \in BinaryDescriptions(d) :
                    BinaryIsOn(d, desc) = "None"

\* C34 witness: the last update succeeded and published a Snapshot that
\* has one device and not the other, whose read failed.
C34_Witness ==
    \E d, e \in DeviceIds :
        /\ JustPublished
        /\ d \notin DOMAIN Snapshot
        /\ outcome[d].kind = "timeout"
        /\ e \in DOMAIN Snapshot
        /\ Available(e)

\* C35: a switch that was added with the last stored state ON reports
\* is_on = True while no command has been issued for its device, whatever
\* the Snapshot says.
C35_RestoredOnIsOn ==
    \A d \in DeviceIds :
        (/\ entity[d].last_state = "on"
         /\ entity[d].service = "none"
         /\ pending[d].status = "idle") => IsOn(d) = "True"

\* The battery percentage the claim gives for the record rec of a valve.
BatteryPercent(rec) ==
    LET v == IF "wfc01batt" \in DOMAIN rec.f THEN rec.f.wfc01batt ELSE 0
    IN  IF v \in 0..5 THEN (v * 100) \div 5 ELSE 0

\* C36: the battery sensor of a valve that is in the Snapshot reports the
\* raw level v of the Snapshot as v*100 div 5 when v is in 0..5 and as 0
\* when it is not; and when a publication replaces the Snapshot, the value
\* reported after it is the one of the new Snapshot.
C36_BatteryPercentage ==
    /\ [](\A d \in DeviceIds :
            (/\ DeviceModel(d) = MODEL_WFC01
             /\ d \in DOMAIN Snapshot
             /\ Snapshot[d].shape = "rec") =>
                NativeValue(d, BatteryDescription) = BatteryPercent(Snapshot[d]))
    /\ [][\A d \in DeviceIds :
            (/\ PublishStep
             /\ DeviceModel(d) = MODEL_WFC01
             /\ d \in DOMAIN heap[cycObj]) =>
                NativeValueIn(heap'[data'], d, BatteryDescription)
                    = BatteryPercent(heap[cycObj][d])]_vars

\* C36 witness: the valve shows 80 for the level 4 of the Snapshot, and the
\* cycle that is about to publish has read the level 3.
C36_Witness ==
    \E d \in DeviceIds :
        /\ DeviceModel(d) = MODEL_WFC01
        /\ d \in DOMAIN Snapshot
        /\ "wfc01batt" \in DOMAIN Snapshot[d].f
        /\ Snapshot[d].f.wfc01batt = 4
        /\ NativeValue(d, BatteryDescription) = 80
        /\ pc = "fetch" /\ LoopDone(idx)
        /\ d \in DOMAIN heap[cycObj]
        /\ "wfc01batt" \in DOMAIN heap[cycObj][d].f
        /\ heap[cycObj][d].f.wfc01batt = 3
        /\ NativeValueIn(heap[cycObj], d, BatteryDescription) = 60

\* The warning byte of the record of d in the Snapshot, 0 when the record
\* has no "warning" field.
WarningOf(d) ==
    IF "warning" \in DOMAIN Snapshot[d].f THEN Snapshot[d].f.warning ELSE 0

\* Bit b of the byte w is set: w modulo 2^(b+1) is at least 2^b.
BitOf(w, b) == (w % Pow2(b + 1)) >= Pow2(b)

\* C37: for every device with a record in the Snapshot and every warning
\* flag, is_on of the binary sensor is True exactly when the bit of the
\* flag is set in the warning byte, and for the inverted flag (bit 7,
\* "offline", shown as connected) exactly when it is not set; a record
\* without a warning field is read as the byte 0.
C37_WarningBits ==
    \A d \in DeviceIds :
        (d \in DOMAIN Snapshot /\ Snapshot[d].shape = "rec") =>
            \A desc \in BinaryDescriptions(d) :
                BinaryIsOn(d, desc) =
                    (IF BitOf(WarningOf(d), desc.bit_position) # desc.inverted
                     THEN "True" ELSE "False")

\* C37 witness: the Snapshot has the plug with the warning byte 132 (bits 2
\* and 7): the low-current flag is on and the device shows as not
\* connected.
C37_Witness ==
    \E d \in DeviceIds :
        /\ DeviceModel(d) = MODEL_AC1100
        /\ d \in DOMAIN Snapshot
        /\ Snapshot[d].shape = "rec"
        /\ WarningOf(d) = 132
        /\ BinaryIsOn(d, [bit_position |-> 2, inverted |-> FALSE]) = "True"
        /\ BinaryIsOn(d, [bit_position |-> 7, inverted |-> TRUE]) = "False"
        /\ BinaryIsOn(d, [bit_position |-> 0, inverted |-> FALSE]) = "False"

\* C38: in the step that publishes a Snapshot, every entry of it is the
\* entry _last_good_data has for the device at that moment, or, for a
\* device without an entry there, a record made by _get_default_data.
C38_EntriesFromCacheOrDefault ==
    [][PublishStep =>
          \A d \in DOMAIN heap'[data'] :
              IF d \in DOMAIN last_good'
              THEN heap'[data'][d] = last_good'[d]
              ELSE IsDefault(d, heap'[data'][d])]_vars

\* C38 witness: a cycle is about to publish a default record for a device
\* that answered "200 OK" and has no cache entry, and the cached record for
\* a device whose read failed.
C38_Witness ==
    \E d, e \in DeviceIds :
        /\ pc = "fetch" /\ LoopDone(idx)
        /\ outcome[d].kind = "ack"
        /\ d \notin DOMAIN last_good
        /\ d \in DOMAIN heap[cycObj]
        /\ IsDefault(d, heap[cycObj][d])
        /\ outcome[e].kind \in {"timeout", "bad"}
        /\ e \in DOMAIN last_good
        /\ e \in DOMAIN heap[cycObj]
        /\ heap[cycObj][e] = last_good[e]

\* C39: _last_good_data never holds a record made by _get_default_data: an
\* entry for d is always the parsed body of a JSON response of d. A read
\* of an uncached d answered "200 OK" puts a default stamped with the time
\* of that read in the cycle's result and leaves d uncached, and a failed
\* read of an uncached d leaves d out of the cycle's result.
C39_DefaultNeverCached ==
    /\ [](\A d \in DOMAIN last_good :
            /\ ~IsDefault(d, last_good[d])
            /\ \E r \in ReadResponses(d) :
                  r.kind = "json" /\ last_good[d] = r.val)
    /\ [][\A d \in DeviceIds :
            (ReadStep(d) /\ d \notin DOMAIN last_good) =>
                /\ outcome'[d].kind = "ack" =>
                      /\ d \notin DOMAIN last_good'
                      /\ d \in DOMAIN heap'[cycObj]
                      /\ heap'[cycObj][d] = DefaultData(d, now)
                /\ FetchRaises(outcome'[d]) =>
                      /\ d \notin DOMAIN last_good'
                      /\ d \notin DOMAIN heap'[cycObj]]_vars

\* C39 witness: the published Snapshot holds a default for a device, stamped
\* at time 0; at time 1 the read of that device in the next cycle has
\* failed, nothing is cached for it, and the cycle's result leaves it out.
C39_Witness ==
    \E d \in DeviceIds :
        /\ loaded
        /\ pc = "fetch"
        /\ now = 1
        /\ d \in DOMAIN Snapshot
        /\ Snapshot[d] = DefaultData(d, 0)
        /\ outcome[d].kind = "timeout"
        /\ d \notin DOMAIN last_good
        /\ d \notin DOMAIN heap[cycObj]

\* C40: a cycle ended by the timeout or an unexpected exception publishes
\* nothing: coordinator.data stays the same object with the same entries,
\* also for the devices the aborted cycle had already read, and from the
\* abort until a later cycle publishes no step changes the Snapshot and
\* every device's entities report unavailable.
C40_AbortPublishesNothing ==
    /\ [][(loaded /\ AbortStep) =>
            /\ data' = data
            /\ \A d \in DeviceIds :
                  /\ (d \in DOMAIN Snapshot') <=> (d \in DOMAIN Snapshot)
                  /\ d \in DOMAIN Snapshot => Snapshot'[d] = Snapshot[d]
                  /\ ~Available(d)']_vars
    /\ [][(loaded /\ ~last_update_success /\ ~PublishStep) =>
            /\ ~last_update_success'
            /\ Snapshot' = Snapshot]_vars
    /\ []((loaded /\ ~last_update_success) =>
            \A d \in DeviceIds : ~Available(d))

\* C40 witness: the aborted cycle had read a new record of its first device;
\* the Snapshot still holds the older record of that device and a record of
\* the other device, and neither device is available.
C40_Witness ==
    /\ JustAborted
    /\ outcome[devices[1]] = RespJson(DeviceRecord(devices[1], 1))
    /\ last_good[devices[1]] = DeviceRecord(devices[1], 1)
    /\ \A d \in DeviceIds :
          /\ d \in DOMAIN Snapshot
          /\ Snapshot[d] = DeviceRecord(d, 0)
          /\ ~Available(d)

====
